---- MODULE Spec2Model ----
(***************************************************************************)
(* Model of cloudflare_mcp_server/__init__.py: the tool dispatcher         *)
(* (call_tool), the thirteen handlers, the HTTP client adapter             *)
(* (_make_request) and the process lifecycle of main().                    *)
(*                                                                         *)
(* Python values are pairs <<type, repr>>; dicts are functions from key    *)
(* strings to values; strings built by f-strings are sequences of chunks   *)
(* <<kind, payload>>, so "the text contains X" is asked of its chunks.     *)
(***************************************************************************)
EXTENDS Integers, Sequences, FiniteSets, TLC

\* Number of tool invocations the host runtime may have in flight at once.
MaxInFlight == 1

-----------------------------------------------------------------------------
\* Python values

PyStr(s) == <<"str", s>>
PyInt(s) == <<"int", s>>
PyBool(s) == <<"bool", s>>
PyList(l) == <<"list", l>>
PyNone == <<"NoneType", "None">>
PyTrue == PyBool("True")
PyFalse == PyBool("False")

\* bool(v): Python truthiness, as used by `if args.get(k):` and `a or b`.
Truthy(v) ==
    CASE v[1] = "str" -> v[2] # ""
      [] v[1] = "int" -> v[2] # "0"
      [] v[1] = "bool" -> v[2] = "True"
      [] v[1] = "list" -> v[2] # <<>>
      [] v[1] = "dict" -> v[2] # "{}"
      [] v[1] = "NoneType" -> FALSE
      [] OTHER -> TRUE

\* f"{v}": the text a value contributes to an f-string.
Fmt(v) == v[2]

EmptyDict == [k \in {} |-> PyNone]

\* args.get(k)
Get(args, k) == IF k \in DOMAIN args THEN args[k] ELSE PyNone

\* args.get(k, d)
GetOr(args, k, d) == IF k \in DOMAIN args THEN args[k] ELSE d

\* d[k] = v
Put(d, k, v) == [x \in (DOMAIN d) \cup {k} |-> IF x = k THEN v ELSE d[x]]

PutIfTruthyInTarget(d, args, k) ==
    IF Truthy(Get(d, k)) THEN Put(d, k, args[k]) ELSE d

\* `if args.get(k): params[k] = args[k]`
PutIfTruthy(d, args, k) == IF Truthy(Get(args, k)) THEN Put(d, k, args[k]) ELSE d

\* `if k in args: data[k] = args[k]`
PutIfPresent(d, args, k) == IF k \in DOMAIN args THEN Put(d, k, args[k]) ELSE d

-----------------------------------------------------------------------------
\* Text chunks, exceptions

Lit(s) == <<"lit", s>>
\* json.dumps(x): the serialization of x, distinct from x itself.
JsonDumps(x) == <<"json", x>>
\* repr of a key, as str(KeyError(key)) prints it.
Repr(s) == <<"repr", s>>

Exc(cls, msg) == [cls |-> cls, msg |-> msg]
NoExc == Exc("none", <<>>)

\* Exception classes that derive from Exception.
ExceptionClasses ==
    {"ValueError", "KeyError", "Exception", "HTTPStatusError", "ConnectError",
     "JSONDecodeError"}

\* Classes derived from httpx.HTTPError.
HTTPErrorClasses == {"HTTPStatusError", "ConnectError"}

KeyError(k) == Exc("KeyError", <<Repr(k)>>)

\* The first key of ks missing from args, in the order the code reads them;
\* "" when none is missing.
RECURSIVE FirstMissing(_, _)
FirstMissing(args, ks) ==
    IF ks = <<>> THEN ""
    ELSE IF Head(ks) \notin DOMAIN args THEN Head(ks)
    ELSE FirstMissing(args, Tail(ks))

-----------------------------------------------------------------------------
\* Outbound requests

NoBody == [kind |-> "none", data |-> EmptyDict, content |-> PyNone]
JsonBody(d) == [kind |-> "json", data |-> d, content |-> PyNone]
ContentBody(c) == [kind |-> "content", data |-> EmptyDict, content |-> c]

Request(via, method, path, params, body) ==
    [via |-> via, method |-> method, path |-> path, params |-> params,
     body |-> body]
NoReq == Request("none", "NONE", <<>>, EmptyDict, NoBody)

\* What a handler does up to its first await: raise, or send one request.
Raise(e) == [tag |-> "raise", exc |-> e, req |-> NoReq]
Send(r) == [tag |-> "send", exc |-> NoExc, req |-> r]

\* The request _make_request(endpoint, method, data, params) sends.
ApiRequest(path, method, data, params) ==
    Request("make_request", method, path, params, data)

-----------------------------------------------------------------------------
\* Handlers: each maps the arguments to the plan of its first await.

_list_zones(args) ==
    LET p1 == PutIfTruthy(EmptyDict, args, "name")
        p2 == PutIfTruthy(p1, args, "status")
        p3 == PutIfTruthy(p2, args, "page")
        p4 == PutIfTruthy(p3, args, "per_page")
    IN  Send(ApiRequest(<<"/zones">>, "GET", NoBody, p4))

_get_zone(args) ==
    IF "zone_id" \notin DOMAIN args THEN Raise(KeyError("zone_id"))
    ELSE Send(ApiRequest(<<"/zones/", Fmt(args["zone_id"])>>, "GET", NoBody,
                         EmptyDict))

_list_dns_records(args) ==
    LET p1 == PutIfTruthy(EmptyDict, args, "type")
        p2 == PutIfTruthy(p1, args, "name")
        p3 == PutIfTruthy(p2, args, "content")
        p4 == PutIfTruthy(p3, args, "page")
        p5 == PutIfTruthy(p4, args, "per_page")
    IN  IF "zone_id" \notin DOMAIN args THEN Raise(KeyError("zone_id"))
        ELSE Send(ApiRequest(<<"/zones/", Fmt(args["zone_id"]), "/dns_records">>,
                             "GET", NoBody, p5))

\* ttl sent by create_dns_record when the caller gives none.
DefaultTtl == PyInt("1")

create_dns_record_data_no_ttl(args) ==
    LET d0 == [type |-> args["type"], name |-> args["name"],
               content |-> args["content"]]
        d1 == PutIfPresent(d0, args, "ttl")
        d2 == PutIfPresent(d1, args, "proxied")
        d3 == PutIfPresent(d2, args, "priority")
    IN  PutIfPresent(d3, args, "comment")

\* The `data` dict of _create_dns_record.
create_dns_record_data(args) ==
    LET d0 == [type |-> args["type"], name |-> args["name"],
               content |-> args["content"],
               ttl |-> GetOr(args, "ttl", DefaultTtl)]
        d1 == PutIfPresent(d0, args, "proxied")
        d2 == PutIfPresent(d1, args, "priority")
    IN  PutIfPresent(d2, args, "comment")

_create_dns_record(args) ==
    LET miss == FirstMissing(args, <<"type", "name", "content", "zone_id">>)
    IN  IF miss # "" THEN Raise(KeyError(miss))
        ELSE Send(ApiRequest(<<"/zones/", Fmt(args["zone_id"]), "/dns_records">>,
                             "POST", JsonBody(create_dns_record_data(args)),
                             EmptyDict))

update_dns_record_data_default_ttl(args) ==
    LET d0 == [type |-> args["type"], name |-> args["name"],
               content |-> args["content"],
               ttl |-> GetOr(args, "ttl", DefaultTtl)]
        d1 == PutIfPresent(d0, args, "proxied")
        d2 == PutIfPresent(d1, args, "priority")
    IN  PutIfPresent(d2, args, "comment")

\* The `data` dict of _update_dns_record.
update_dns_record_data(args) ==
    LET d0 == [type |-> args["type"], name |-> args["name"],
               content |-> args["content"]]
        d1 == PutIfPresent(d0, args, "ttl")
        d2 == PutIfPresent(d1, args, "proxied")
        d3 == PutIfPresent(d2, args, "priority")
    IN  PutIfPresent(d3, args, "comment")

_update_dns_record(args) ==
    LET miss == FirstMissing(args, <<"type", "name", "content", "zone_id",
                                     "record_id">>)
    IN  IF miss # "" THEN Raise(KeyError(miss))
        ELSE Send(ApiRequest(<<"/zones/", Fmt(args["zone_id"]), "/dns_records/",
                               Fmt(args["record_id"])>>,
                             "PUT", JsonBody(update_dns_record_data(args)),
                             EmptyDict))

_delete_dns_record(args) ==
    LET miss == FirstMissing(args, <<"zone_id", "record_id">>)
    IN  IF miss # "" THEN Raise(KeyError(miss))
        ELSE Send(ApiRequest(<<"/zones/", Fmt(args["zone_id"]), "/dns_records/",
                               Fmt(args["record_id"])>>,
                             "DELETE", NoBody, EmptyDict))

purge_cache_data_with_selectors(args) ==
    LET d0 == IF Truthy(Get(args, "purge_everything"))
              THEN Put(EmptyDict, "purge_everything", PyTrue) ELSE EmptyDict
        d1 == PutIfTruthy(d0, args, "files")
        d2 == PutIfTruthy(d1, args, "tags")
    IN  PutIfTruthy(d2, args, "hosts")

\* The `data` dict of _purge_cache.
purge_cache_data(args) ==
    IF Truthy(Get(args, "purge_everything"))
    THEN Put(EmptyDict, "purge_everything", PyTrue)
    ELSE LET d1 == PutIfTruthy(EmptyDict, args, "files")
             d2 == PutIfTruthy(d1, args, "tags")
         IN  PutIfTruthy(d2, args, "hosts")

_purge_cache(args) ==
    IF "zone_id" \notin DOMAIN args THEN Raise(KeyError("zone_id"))
    ELSE Send(ApiRequest(<<"/zones/", Fmt(args["zone_id"]), "/purge_cache">>,
                         "POST", JsonBody(purge_cache_data(args)), EmptyDict))

-----------------------------------------------------------------------------
\* Account-scoped handlers

account_id_default_first(args, default) ==
    IF Truthy(default) THEN default ELSE Get(args, "account_id")

\* `args.get("account_id") or self.account_id`
account_id_of(args, default) ==
    IF Truthy(Get(args, "account_id")) THEN Get(args, "account_id") ELSE default

account_id_kept_from_call(args, default) ==
    IF Truthy(Get(args, "account_id")) THEN Get(args, "account_id") ELSE default

\* self.account_id after a handler ran: the handlers bind the resolved id to
\* a local name and never assign the attribute.
account_id_after_call(args, default) == default

account_required_never(account_id) == FALSE

\* `if not account_id: raise ValueError(...)`
account_required(account_id) == ~Truthy(account_id)

AccountIdRequired ==
    Exc("ValueError",
        <<Lit("Account ID is required. Provide it in args or config.")>>)

\* The path of a KV value: /accounts/{a}/storage/kv/namespaces/{ns}/values/{k}
kv_value_url(account_id, args) ==
    <<"/accounts/", Fmt(account_id), "/storage/kv/namespaces/",
      Fmt(args["namespace_id"]), "/values/", Fmt(args["key"])>>

\* str -> bytes, as httpx encodes `content=`.
Encode(v) == <<"bytes", v[2]>>
\* bytes -> str, as response.text decodes the body.
Decode(b) == <<"str", b[2]>>

_list_kv_namespaces(args, default) ==
    LET account_id == account_id_of(args, default)
        p1 == PutIfTruthy(EmptyDict, args, "page")
        p2 == PutIfTruthy(p1, args, "per_page")
    IN  IF account_required(account_id) THEN Raise(AccountIdRequired)
        ELSE Send(ApiRequest(<<"/accounts/", Fmt(account_id),
                               "/storage/kv/namespaces">>, "GET", NoBody, p2))

_read_kv_value(args, default) ==
    LET account_id == account_id_of(args, default)
        miss == FirstMissing(args, <<"namespace_id", "key">>)
    IN  IF account_required(account_id) THEN Raise(AccountIdRequired)
        ELSE IF miss # "" THEN Raise(KeyError(miss))
        ELSE Send(Request("client", "GET", kv_value_url(account_id, args),
                          EmptyDict, NoBody))

write_kv_content_key(args) == Encode(args["key"])

\* The request body of _write_kv_value: `content=args["value"]`.
write_kv_content(args) == Encode(args["value"])

\* The query of _write_kv_value.
write_kv_params(args) ==
    LET p1 == PutIfTruthy(EmptyDict, args, "expiration_ttl")
    IN  IF Truthy(Get(args, "metadata"))
        THEN Put(p1, "metadata", PyStr(JsonDumps(args["metadata"])))
        ELSE p1

_write_kv_value(args, default) ==
    LET account_id == account_id_of(args, default)
        miss == FirstMissing(args, <<"namespace_id", "key", "value">>)
    IN  IF account_required(account_id) THEN Raise(AccountIdRequired)
        ELSE IF miss # "" THEN Raise(KeyError(miss))
        ELSE Send(Request("client", "PUT", kv_value_url(account_id, args),
                          write_kv_params(args),
                          ContentBody(write_kv_content(args))))

_delete_kv_value(args, default) ==
    LET account_id == account_id_of(args, default)
        miss == FirstMissing(args, <<"namespace_id", "key">>)
    IN  IF account_required(account_id) THEN Raise(AccountIdRequired)
        ELSE IF miss # "" THEN Raise(KeyError(miss))
        ELSE Send(Request("client", "DELETE", kv_value_url(account_id, args),
                          EmptyDict, NoBody))

_list_kv_keys(args, default) ==
    LET account_id == account_id_of(args, default)
        p1 == PutIfTruthy(EmptyDict, args, "prefix")
        p2 == PutIfTruthy(p1, args, "limit")
        p3 == PutIfTruthy(p2, args, "cursor")
    IN  IF account_required(account_id) THEN Raise(AccountIdRequired)
        ELSE IF "namespace_id" \notin DOMAIN args
             THEN Raise(KeyError("namespace_id"))
        ELSE Send(ApiRequest(<<"/accounts/", Fmt(account_id),
                               "/storage/kv/namespaces/",
                               Fmt(args["namespace_id"]), "/keys">>,
                             "GET", NoBody, p3))

_get_zone_analytics(args) ==
    LET p1 == PutIfTruthy(EmptyDict, args, "since")
        p2 == PutIfTruthy(p1, args, "until")
    IN  IF "zone_id" \notin DOMAIN args THEN Raise(KeyError("zone_id"))
        ELSE Send(ApiRequest(<<"/zones/", Fmt(args["zone_id"]),
                               "/analytics/dashboard">>, "GET", NoBody, p2))

-----------------------------------------------------------------------------
\* Tool registry and dispatch

\* The names list_tools() returns, in order.
ToolNames ==
    <<"list_zones", "get_zone", "list_dns_records", "create_dns_record",
      "update_dns_record", "delete_dns_record", "purge_cache",
      "list_kv_namespaces", "read_kv_value", "write_kv_value",
      "delete_kv_value", "list_kv_keys", "get_zone_analytics">>

Registered == {ToolNames[i] : i \in 1..Len(ToolNames)}

AccountScoped ==
    {"list_kv_namespaces", "read_kv_value", "write_kv_value",
     "delete_kv_value", "list_kv_keys"}

call_tool_route_without_get_zone(name) ==
    IF name \in Registered \ {"get_zone"} THEN name ELSE "unknown"

call_tool_route_fallback(name) ==
    IF name \in Registered THEN name ELSE "list_zones"

\* The branch of the if/elif chain of call_tool that `name` selects:
\* the handler's tool name, or "unknown" for the final else.
call_tool_route(name) ==
    CASE name = "list_zones" -> "list_zones"
      [] name = "get_zone" -> "get_zone"
      [] name = "list_dns_records" -> "list_dns_records"
      [] name = "create_dns_record" -> "create_dns_record"
      [] name = "update_dns_record" -> "update_dns_record"
      [] name = "delete_dns_record" -> "delete_dns_record"
      [] name = "purge_cache" -> "purge_cache"
      [] name = "list_kv_namespaces" -> "list_kv_namespaces"
      [] name = "read_kv_value" -> "read_kv_value"
      [] name = "write_kv_value" -> "write_kv_value"
      [] name = "delete_kv_value" -> "delete_kv_value"
      [] name = "list_kv_keys" -> "list_kv_keys"
      [] name = "get_zone_analytics" -> "get_zone_analytics"
      [] OTHER -> "unknown"

UnknownTool(name) ==
    Exc("ValueError", <<Lit("Unknown tool: "), <<"fmt", name>> >>)

\* The handler selected by call_tool, run up to its first await.
handler_plan(name, args, default) ==
    LET h == call_tool_route(name)
    IN  CASE h = "list_zones" -> _list_zones(args)
          [] h = "get_zone" -> _get_zone(args)
          [] h = "list_dns_records" -> _list_dns_records(args)
          [] h = "create_dns_record" -> _create_dns_record(args)
          [] h = "update_dns_record" -> _update_dns_record(args)
          [] h = "delete_dns_record" -> _delete_dns_record(args)
          [] h = "purge_cache" -> _purge_cache(args)
          [] h = "list_kv_namespaces" -> _list_kv_namespaces(args, default)
          [] h = "read_kv_value" -> _read_kv_value(args, default)
          [] h = "write_kv_value" -> _write_kv_value(args, default)
          [] h = "delete_kv_value" -> _delete_kv_value(args, default)
          [] h = "list_kv_keys" -> _list_kv_keys(args, default)
          [] h = "get_zone_analytics" -> _get_zone_analytics(args)
          [] OTHER -> Raise(UnknownTool(name))

-----------------------------------------------------------------------------
\* Responses and their unwrapping

NoBytes == <<"bytes", "">>
JsonObj(env) == [fmt |-> "json_obj", json |-> env, raw |-> NoBytes]
NotJson == [fmt |-> "not_json", json |-> EmptyDict, raw |-> NoBytes]
RawBody(b) == [fmt |-> "raw", json |-> EmptyDict, raw |-> b]

HttpResponse(status, body) == [kind |-> "http", status |-> status, body |-> body]
NetworkError == [kind |-> "neterr", status |-> 0, body |-> NotJson]
NoResp == [kind |-> "none", status |-> 0, body |-> NotJson]

\* response.is_success, which raise_for_status() tests.
IsSuccess(status) == status >= 200 /\ status <= 299

Return(v) == [tag |-> "return", value |-> v, exc |-> NoExc]
Throw(e) == [tag |-> "raise", value |-> PyNone, exc |-> e]

\* str() of the httpx error raised for `resp` to request `req`: it names the
\* status and the URL, never the response body.
HttpxError(req, resp) ==
    IF resp.kind = "neterr"
    THEN Exc("ConnectError", <<Lit("All connection attempts failed")>>)
    ELSE Exc("HTTPStatusError",
             <<Lit("status error "), <<"status", resp.status>>,
               Lit(" for url "), <<"url", req.path>> >>)

\* `except httpx.HTTPError as e: raise Exception(f"HTTP error occurred: ...")`
WrapHttpError(e) ==
    IF e.cls \in HTTPErrorClasses
    THEN Exc("Exception", <<Lit("HTTP error occurred: ")>> \o e.msg)
    ELSE e

make_request_unwrap_ignoring_success(env) == Return(Get(env, "result"))

\* Lines 52-56 of _make_request: the success check on the parsed envelope.
make_request_unwrap(env) ==
    IF ~Truthy(Get(env, "success"))
    THEN Throw(Exc("Exception",
                   <<Lit("Cloudflare API error: "),
                     JsonDumps(GetOr(env, "errors", PyList(<<>>)))>>))
    ELSE Return(Get(env, "result"))

\* The outcome of _make_request once the remote has answered.
_make_request(req, resp) ==
    IF resp.kind = "neterr" \/ ~IsSuccess(resp.status)
    THEN Throw(WrapHttpError(HttpxError(req, resp)))
    ELSE IF resp.body.fmt # "json_obj"
    THEN Throw(Exc("JSONDecodeError", <<Lit("Expecting value")>>))
    ELSE make_request_unwrap(resp.body.json)

\* The outcome of a raw KV handler once the remote has answered.
raw_kv_result(req, resp) ==
    IF resp.kind = "neterr" \/ ~IsSuccess(resp.status)
    THEN Throw(HttpxError(req, resp))
    ELSE CASE req.method = "GET" -> Return(Decode(resp.body.raw))
           [] req.method = "PUT" -> Return(PyStr("KV value written successfully"))
           [] OTHER -> Return(PyStr("KV value deleted successfully"))

retry_on_network_error(resp) == IF resp.kind = "neterr" THEN 1 ELSE 0

\* How many further requests a handler sends after the answer `resp`: the
\* client is awaited once, with no loop around it.
requests_after_answer(resp) == 0

\* The outcome of the handler that sent `req` when it resumes with `resp`.
handler_resume(req, resp) ==
    IF req.via = "make_request" THEN _make_request(req, resp)
    ELSE raw_kv_result(req, resp)

caught_value_error_only(cls) == cls = "ValueError"

\* `except Exception` in call_tool.
caught(cls) == cls \in ExceptionClasses

TextContent(text) == [type |-> "text", text |-> text]

\* What call_tool hands to the transport for a handler outcome: the list of
\* content blocks, or the exception it lets through.
call_tool_result(outcome) ==
    IF outcome.tag = "return"
    THEN [crashed |-> FALSE,
          content |-> <<TextContent(<<JsonDumps(outcome.value)>>)>>]
    ELSE IF caught(outcome.exc.cls)
    THEN [crashed |-> FALSE,
          content |-> <<TextContent(<<Lit("Error: ")>> \o outcome.exc.msg)>>]
    ELSE [crashed |-> TRUE, content |-> <<>>]

-----------------------------------------------------------------------------
\* Inputs the transport may deliver, the remote's answers, and the stub store

Call(name, args) == [name |-> name, args |-> args]

Z1 == PyStr("z1")
DnsRequired ==
    [zone_id |-> Z1, type |-> PyStr("A"), name |-> PyStr("www"),
     content |-> PyStr("1.2.3.4")]
DnsUpdateRequired == Put(DnsRequired, "record_id", PyStr("r1"))
KvKey == [namespace_id |-> PyStr("ns1"), key |-> PyStr("k1")]
Files == PyList(<<"https://e.x/a">>)

Inputs ==
    << Call("no_such_tool", EmptyDict),
       Call("List_Zones", [name |-> PyStr("e.x")]),
       Call("list_zones", EmptyDict),
       Call("list_zones", [name |-> PyStr("e.x"), page |-> PyInt("0")]),
       Call("get_zone", [zone_id |-> Z1]),
       Call("get_zone", EmptyDict),
       Call("list_dns_records", [zone_id |-> Z1, type |-> PyStr("A"),
                                 name |-> PyStr("")]),
       Call("create_dns_record", DnsRequired),
       Call("create_dns_record",
            Put(Put(Put(DnsRequired, "proxied", PyFalse), "priority",
                    PyInt("0")), "comment", PyStr(""))),
       Call("create_dns_record", Put(DnsRequired, "ttl", PyInt("300"))),
       Call("create_dns_record", [zone_id |-> Z1, type |-> PyStr("A")]),
       Call("update_dns_record", DnsUpdateRequired),
       Call("update_dns_record",
            Put(Put(DnsUpdateRequired, "ttl", PyInt("0")), "proxied", PyFalse)),
       Call("delete_dns_record", [zone_id |-> Z1, record_id |-> PyStr("r1")]),
       Call("purge_cache", [zone_id |-> Z1, purge_everything |-> PyTrue]),
       Call("purge_cache", [zone_id |-> Z1, purge_everything |-> PyTrue,
                            files |-> Files]),
       Call("purge_cache", [zone_id |-> Z1, purge_everything |-> PyTrue,
                            files |-> Files, tags |-> PyList(<<"t1">>),
                            hosts |-> PyList(<<"e.x">>)]),
       Call("purge_cache", [zone_id |-> Z1, purge_everything |-> PyFalse,
                            files |-> Files]),
       Call("purge_cache", [zone_id |-> Z1, tags |-> PyList(<<>>)]),
       Call("purge_cache", [purge_everything |-> PyTrue]),
       Call("list_kv_namespaces", EmptyDict),
       Call("list_kv_namespaces", [account_id |-> PyStr("acctA")]),
       Call("list_kv_namespaces", [account_id |-> PyStr("")]),
       Call("read_kv_value", KvKey),
       Call("read_kv_value", Put(KvKey, "account_id", PyStr("acctA"))),
       Call("read_kv_value", Put(KvKey, "account_id", PyStr(""))),
       Call("read_kv_value", [key |-> PyStr("k1")]),
       Call("write_kv_value", Put(KvKey, "value", PyStr("v1"))),
       Call("write_kv_value", Put(KvKey, "value", PyStr("v2"))),
       Call("write_kv_value",
            Put(Put(KvKey, "value", PyStr("v1")), "account_id", PyStr("acctA"))),
       Call("write_kv_value",
            Put(Put(Put(Put(KvKey, "value", PyStr("v2")), "account_id",
                    PyStr("acctA")), "expiration_ttl", PyInt("60")),
                "metadata", <<"dict", "{m: 1}">>)),
       Call("delete_kv_value", KvKey),
       Call("delete_kv_value", Put(KvKey, "account_id", PyStr("acctA"))),
       Call("list_kv_keys", [namespace_id |-> PyStr("ns1")]),
       Call("list_kv_keys", [namespace_id |-> PyStr("ns1"),
                             account_id |-> PyStr("acctA"),
                             prefix |-> PyStr("p")]),
       Call("get_zone_analytics", [zone_id |-> Z1, since |-> PyStr("-1440")]) >>

\* Values CLOUDFLARE_ACCOUNT_ID may give the default account id.
DefaultAccounts == <<PyNone, PyStr("acctD")>>
\* Values CLOUDFLARE_API_TOKEN may have.
Tokens == <<PyNone, PyStr("tok")>>

ErrsBad == PyList(<<[code |-> 1000, message |-> "bad"]>>)
OkEnvelope == [success |-> PyTrue, errors |-> PyList(<<>>), result |-> PyStr("R1")]
FailEnvelope == [success |-> PyFalse, errors |-> ErrsBad, result |-> PyStr("R1")]
FailNoErrors == [success |-> PyFalse, result |-> PyNone]

\* Answers the remote may give to a request made through _make_request.
EnvelopeResponses ==
    << NetworkError,
       HttpResponse(200, JsonObj(OkEnvelope)),
       HttpResponse(200, JsonObj(FailEnvelope)),
       HttpResponse(200, JsonObj(FailNoErrors)),
       HttpResponse(400, JsonObj(FailEnvelope)),
       HttpResponse(200, NotJson) >>

\* The stub store: (account, namespace, key) -> stored bytes.
Absent == <<"absent", "">>
StoreKeys == {<<a, "ns1", "k1">> : a \in {"acctA", "acctD"}}

\* The store key a KV value URL addresses.
UrlKey(path) == <<path[2], path[4], path[6]>>

\* What the store holds under a key; nothing for a key it does not know.
Stored(st, key) == IF key \in DOMAIN st THEN st[key] ELSE Absent

\* Answers the stub gives to a raw KV request: a 2xx answer applies the
\* request (whatever body accompanies it), any other answer changes nothing.
KvResponses(req, st) ==
    IF req.method = "GET"
    THEN << NetworkError,
            IF Stored(st, UrlKey(req.path)) = Absent
            THEN HttpResponse(404, JsonObj(FailEnvelope))
            ELSE HttpResponse(200, RawBody(st[UrlKey(req.path)])) >>
    ELSE IF UrlKey(req.path) \notin DOMAIN st
    THEN << NetworkError, HttpResponse(404, JsonObj(FailEnvelope)) >>
    ELSE << NetworkError,
            HttpResponse(200, JsonObj(OkEnvelope)),
            HttpResponse(200, JsonObj(FailEnvelope)),
            HttpResponse(500, NotJson) >>

ResponsesTo(req, st) ==
    CASE req.via = "make_request" -> EnvelopeResponses
      [] req.via = "client" -> KvResponses(req, st)
      [] OTHER -> <<>>

\* The store after the stub has answered `req` with `resp`.
StoreAfter(st, req, resp) ==
    IF req.via = "client" /\ resp.kind = "http" /\ IsSuccess(resp.status)
    THEN CASE req.method = "PUT" ->
                [st EXCEPT ![UrlKey(req.path)] = req.body.content]
           [] req.method = "DELETE" -> [st EXCEPT ![UrlKey(req.path)] = Absent]
           [] OTHER -> st
    ELSE st

-----------------------------------------------------------------------------
\* State

VARIABLES
    pc,           \* where main() is
    api_token,    \* CLOUDFLARE_API_TOKEN
    account_id,   \* CLOUDFLARE_ACCOUNT_ID, later self.account_id
    client,       \* self.client: "none", "open" or "closed"
    closes,       \* how many times client.aclose() has run
    slots,        \* the call_tool invocations the runtime has in flight
    store,        \* the remote stub's KV store
    written,      \* per store key, the `value` argument last written (ghost)
    listed        \* the names of the last list_tools() answer, <<>> before any

vars ==
    <<pc, api_token, account_id, client, closes, slots, store, written, listed>>

Slots == 1..MaxInFlight

IdleSlot ==
    [st |-> "idle", name |-> "", args |-> EmptyDict, handler |-> "",
     req |-> NoReq, sent |-> 0, resp |-> NoResp, crashed |-> FALSE,
     content |-> <<>>, expect |-> Absent]

\* The store key a raw KV call addresses, from the caller's side.
CallKey(args, default) ==
    <<Fmt(account_id_of(args, default)), Fmt(args["namespace_id"]),
      Fmt(args["key"])>>

Init ==
    /\ pc = "start"
    /\ \E t \in 1..Len(Tokens) : api_token = Tokens[t]
    /\ \E d \in 1..Len(DefaultAccounts) : account_id = DefaultAccounts[d]
    /\ client = "none"
    /\ closes = 0
    /\ slots = [i \in Slots |-> IdleSlot]
    /\ store = [k \in StoreKeys |-> Absent]
    /\ written = [k \in StoreKeys |-> Absent]
    /\ listed = <<>>

\* main(): the token check fails before anything is constructed.
MainNoToken ==
    /\ pc = "start"
    /\ ~Truthy(api_token)
    /\ pc' = "fatal"
    /\ UNCHANGED <<api_token, account_id, client, closes, slots, store, written, listed>>

\* main() -> CloudflareMCPServer.__init__: the client is created.
Construct ==
    /\ pc = "start"
    /\ Truthy(api_token)
    /\ pc' = "constructed"
    /\ client' = "open"
    /\ UNCHANGED <<api_token, account_id, closes, slots, store, written, listed>>

\* main(): try: asyncio.run(server.run())
RunServer ==
    /\ pc = "constructed"
    /\ pc' = "running"
    /\ UNCHANGED <<api_token, account_id, client, closes, slots, store, written, listed>>

\* call_tool(name, arguments) up to the handler's first await: either the
\* handler raised and call_tool returns its text, or one request is out.
CallTool(i, name, args) ==
    /\ pc = "running"
    /\ slots[i].st = "idle"
    /\ LET plan == handler_plan(name, args, account_id)
           base == [IdleSlot EXCEPT !.name = name, !.args = args,
                                    !.handler = call_tool_route(name)]
       IN  IF plan.tag = "raise"
           THEN LET r == call_tool_result(Throw(plan.exc))
                IN  slots' = [slots EXCEPT ![i] =
                                 [base EXCEPT !.st = "done",
                                              !.crashed = r.crashed,
                                              !.content = r.content]]
           ELSE slots' = [slots EXCEPT ![i] =
                             [base EXCEPT !.st = "awaiting", !.req = plan.req,
                                          !.sent = 1]]
    /\ account_id' = account_id_after_call(args, account_id)
    /\ UNCHANGED <<pc, api_token, client, closes, store, written, listed>>

\* The remote answers the request of invocation i; the handler resumes and
\* call_tool returns.
Respond(i, resp) ==
    /\ pc = "running"
    /\ slots[i].st = "awaiting"
    /\ LET s == slots[i]
           r == call_tool_result(handler_resume(s.req, resp))
           ok == resp.kind = "http" /\ IsSuccess(resp.status)
           key == CallKey(s.args, account_id)
       IN  /\ slots' = [slots EXCEPT ![i] =
                           IF requests_after_answer(resp) > 0 /\ s.sent < 2
                           THEN [s EXCEPT !.sent = s.sent +
                                                   requests_after_answer(resp)]
                           ELSE
                           [s EXCEPT !.st = "done", !.resp = resp,
                                     !.crashed = r.crashed,
                                     !.content = r.content,
                                     !.expect = IF s.handler = "read_kv_value"
                                                THEN Stored(written, key) ELSE Absent]]
           /\ store' = StoreAfter(store, s.req, resp)
           /\ written' =
                 IF ok /\ s.handler = "write_kv_value"
                 THEN [written EXCEPT ![key] = s.args["value"]]
                 ELSE IF ok /\ s.handler = "delete_kv_value"
                 THEN [written EXCEPT ![key] = Absent]
                 ELSE written
    /\ UNCHANGED <<pc, api_token, account_id, client, closes, listed>>

\* list_tools(): the runtime asks for the tool list and gets a fresh list of
\* the thirteen descriptors.
ListTools ==
    /\ pc = "running"
    /\ listed' = ToolNames
    /\ UNCHANGED <<pc, api_token, account_id, client, closes, slots, store,
                   written>>

\* The transport takes the response of invocation i.
Deliver(i) ==
    /\ pc = "running"
    /\ slots[i].st = "done"
    /\ slots' = [slots EXCEPT ![i] = IdleSlot]
    /\ UNCHANGED <<pc, api_token, account_id, client, closes, store, written, listed>>

\* server.run() ends, normally or by raising; asyncio.run() cancels whatever
\* is still suspended before it returns, and no response is taken any more.
ServerLoopEnds(how) ==
    /\ pc = "running"
    /\ pc' = how
    /\ slots' = [i \in DOMAIN slots |-> IdleSlot]
    /\ UNCHANGED <<api_token, account_id, client, closes, store, written, listed>>

cleanup_on_return_only(at) == at = "returned"

\* `finally:` in main(): cleanup runs however the try block was left.
cleanup_runs(at) == at \in {"returned", "raised"}

\* main(): finally: asyncio.run(server.cleanup()), then main() is left.
Finally ==
    /\ pc \in {"returned", "raised"}
    /\ IF cleanup_runs(pc)
       THEN client' = "closed" /\ closes' = closes + 1
       ELSE UNCHANGED <<client, closes>>
    /\ pc' = IF pc = "returned" THEN "exited" ELSE "exited_raising"
    /\ UNCHANGED <<api_token, account_id, slots, store, written, listed>>

Next ==
    \/ MainNoToken
    \/ Construct
    \/ RunServer
    \/ \E i \in Slots : \E n \in 1..Len(Inputs) :
          CallTool(i, Inputs[n].name, Inputs[n].args)
    \/ \E i \in Slots :
          \E r \in 1..Len(ResponsesTo(slots[i].req, store)) :
             Respond(i, ResponsesTo(slots[i].req, store)[r])
    \/ \E i \in Slots : Deliver(i)
    \/ ServerLoopEnds("returned")
    \/ ServerLoopEnds("raised")
    \/ Finally

Spec == Init /\ [][Next]_vars

-----------------------------------------------------------------------------
\* Several invocations in flight: the same program, with the runtime
\* scheduling up to MaxConcurrent invocations over a smaller set of calls
\* and asking for the tool list in between.

MaxConcurrent == 2

ConcSlots == 1..MaxConcurrent

ConcInputs ==
    << Call("write_kv_value", Put(KvKey, "value", PyStr("v1"))),
       Call("write_kv_value", Put(KvKey, "value", PyStr("v2"))),
       Call("read_kv_value", KvKey),
       Call("read_kv_value", Put(KvKey, "account_id", PyStr("acctA"))),
       Call("get_zone", [zone_id |-> Z1]),
       Call("no_such_tool", EmptyDict) >>

InitConc ==
    /\ pc = "start"
    /\ \E t \in 1..Len(Tokens) : api_token = Tokens[t]
    /\ \E d \in 1..Len(DefaultAccounts) : account_id = DefaultAccounts[d]
    /\ client = "none"
    /\ closes = 0
    /\ slots = [i \in ConcSlots |-> IdleSlot]
    /\ store = [k \in StoreKeys |-> Absent]
    /\ written = [k \in StoreKeys |-> Absent]
    /\ listed = <<>>

NextConc ==
    \/ MainNoToken
    \/ Construct
    \/ RunServer
    \/ \E i \in ConcSlots : \E n \in 1..Len(ConcInputs) :
          CallTool(i, ConcInputs[n].name, ConcInputs[n].args)
    \/ \E i \in ConcSlots :
          \E r \in 1..Len(ResponsesTo(slots[i].req, store)) :
             Respond(i, ResponsesTo(slots[i].req, store)[r])
    \/ \E i \in ConcSlots : Deliver(i)
    \/ ListTools
    \/ ServerLoopEnds("returned")
    \/ ServerLoopEnds("raised")
    \/ Finally

SpecConc == InitConc /\ [][NextConc]_vars

-----------------------------------------------------------------------------
\* Properties

Text(i) == slots[i].content[1].text
Contains(text, chunk) == \E j \in 1..Len(text) : text[j] = chunk
Active(i) == slots[i].st # "idle"
Sent(i) == slots[i].sent = 1
Ok2xx(resp) == resp.kind = "http" /\ IsSuccess(resp.status)

\* The handler outcome of a finished invocation, from what it was called with
\* and what the remote answered.
Outcome(i) ==
    IF Sent(i) THEN handler_resume(slots[i].req, slots[i].resp)
    ELSE Throw(handler_plan(slots[i].name, slots[i].args, account_id).exc)

\* C1: every finished call_tool invocation hands the transport exactly one
\* text block and lets no exception through; the text is the JSON
\* stringification of the handler's result when the handler returned, and
\* "Error: " followed by the exception's message when anything raised.
C1_OneTextBlockNeverRaises ==
    \A i \in Slots :
       slots[i].st = "done" =>
          /\ ~slots[i].crashed
          /\ Len(slots[i].content) = 1
          /\ slots[i].content[1].type = "text"
          /\ IF Outcome(i).tag = "return"
             THEN Text(i) = <<JsonDumps(Outcome(i).value)>>
             ELSE Text(i) = <<Lit("Error: ")>> \o Outcome(i).exc.msg

\* C1 witness: a network failure inside a handler came back as an error text.
C1_Witness ==
    \E i \in Slots :
       /\ slots[i].st = "done"
       /\ slots[i].resp.kind = "neterr"
       /\ slots[i].handler = "read_kv_value"
       /\ ~slots[i].crashed
       /\ Text(i)[1] = Lit("Error: ")

\* C2: a tool name that is not one of the 13 registered names gets the text
\* "Error: Unknown tool: <name>"; no handler runs, no request is sent and
\* nothing is raised to the transport.
C2_UnknownToolIsErrorText ==
    \A i \in Slots :
       (Active(i) /\ slots[i].name \notin Registered) =>
          /\ slots[i].st = "done"
          /\ slots[i].handler = "unknown"
          /\ slots[i].sent = 0
          /\ slots[i].req = NoReq
          /\ ~slots[i].crashed
          /\ Text(i) = <<Lit("Error: "), Lit("Unknown tool: "),
                         <<"fmt", slots[i].name>> >>

\* C2 witness: a name differing from a registered one only in case was called.
C2_Witness ==
    \E i \in Slots :
       /\ slots[i].st = "done"
       /\ slots[i].name = "List_Zones"
       /\ slots[i].sent = 0

\* C3: an account-scoped tool called without account_id while no default
\* account id is configured ends in the "Account ID is required" error and
\* sends no request.
C3_NoAccountIsConfigError ==
    \A i \in Slots :
       (/\ Active(i)
        /\ slots[i].name \in AccountScoped
        /\ "account_id" \notin DOMAIN slots[i].args
        /\ account_id = PyNone) =>
          /\ slots[i].st = "done"
          /\ slots[i].sent = 0
          /\ slots[i].req = NoReq
          /\ Text(i) = <<Lit("Error: ")>> \o AccountIdRequired.msg

\* C3 witness: write_kv_value without account_id and without a default.
C3_Witness ==
    \E i \in Slots :
       /\ slots[i].st = "done"
       /\ slots[i].name = "write_kv_value"
       /\ "account_id" \notin DOMAIN slots[i].args
       /\ account_id = PyNone
       /\ slots[i].sent = 0

\* C4 as stated: the account id in the request path is the account_id
\* argument whenever the caller supplied one, and the default otherwise.
C4_SuppliedAccountAlwaysWins ==
    \A i \in Slots :
       (Sent(i) /\ slots[i].handler \in AccountScoped) =>
          slots[i].req.path[2] =
             IF "account_id" \in DOMAIN slots[i].args
             THEN Fmt(slots[i].args["account_id"])
             ELSE Fmt(account_id)

\* C4 amended: the account id in the request path is the account_id argument
\* whenever the caller supplied a non-empty (truthy) one; when the caller
\* supplied none, or an empty one, it is the configured default.
C4_TruthyAccountWins ==
    \A i \in Slots :
       (Sent(i) /\ slots[i].handler \in AccountScoped) =>
          slots[i].req.path[2] =
             IF Truthy(Get(slots[i].args, "account_id"))
             THEN Fmt(slots[i].args["account_id"])
             ELSE Fmt(account_id)

\* C4 witness: a default is configured and the caller's account id is used.
C4_Witness ==
    \E i \in Slots :
       /\ Sent(i)
       /\ slots[i].handler = "read_kv_value"
       /\ account_id = PyStr("acctD")
       /\ Get(slots[i].args, "account_id") = PyStr("acctA")
       /\ slots[i].req.path[2] = "acctA"

\* C5: purge_cache with purge_everything true sends exactly
\* {purge_everything: true}, whatever files, tags and hosts were supplied.
C5_PurgeEverythingIsExclusive ==
    \A i \in Slots :
       (/\ Sent(i)
        /\ slots[i].handler = "purge_cache"
        /\ Get(slots[i].args, "purge_everything") = PyTrue) =>
          /\ slots[i].req.method = "POST"
          /\ slots[i].req.body.kind = "json"
          /\ DOMAIN slots[i].req.body.data = {"purge_everything"}
          /\ slots[i].req.body.data["purge_everything"] = PyTrue

\* C5 witness: purge_everything was sent with files, tags and hosts supplied.
C5_Witness ==
    \E i \in Slots :
       /\ Sent(i)
       /\ slots[i].handler = "purge_cache"
       /\ Get(slots[i].args, "purge_everything") = PyTrue
       /\ {"files", "tags", "hosts"} \subseteq DOMAIN slots[i].args
       /\ DOMAIN slots[i].req.body.data = {"purge_everything"}

\* C6: create_dns_record called with the required fields only POSTs a body
\* with exactly type, name, content (as given) and ttl = 1.
C6_CreateRequiredOnlyBody ==
    \A i \in Slots :
       (/\ Sent(i)
        /\ slots[i].handler = "create_dns_record"
        /\ DOMAIN slots[i].args = {"zone_id", "type", "name", "content"}) =>
          /\ slots[i].req.method = "POST"
          /\ slots[i].req.body.kind = "json"
          /\ DOMAIN slots[i].req.body.data = {"type", "name", "content", "ttl"}
          /\ \A f \in {"type", "name", "content"} :
                slots[i].req.body.data[f] = slots[i].args[f]
          /\ slots[i].req.body.data["ttl"] = PyInt("1")

\* C6 witness: such a call has its request out.
C6_Witness ==
    \E i \in Slots :
       /\ slots[i].st = "awaiting"
       /\ slots[i].handler = "create_dns_record"
       /\ DOMAIN slots[i].args = {"zone_id", "type", "name", "content"}
       /\ slots[i].req.body.data["ttl"] = PyInt("1")

\* The envelope of a response, and its errors list as _make_request reads it.
Envelope(resp) == resp.body.json
IsFailEnvelope(resp) ==
    /\ resp.kind = "http"
    /\ resp.body.fmt = "json_obj"
    /\ "success" \in DOMAIN Envelope(resp)
    /\ Envelope(resp)["success"] = PyFalse
ErrorsOf(resp) == GetOr(Envelope(resp), "errors", PyList(<<>>))

\* C7: when the remote answers a tool that goes through _make_request with a
\* non-2xx status or with a success:false envelope, the error text holds the
\* serialized error list of that response.
C7_RemoteErrorTextHasErrorList ==
    \A i \in Slots :
       (/\ slots[i].st = "done"
        /\ slots[i].req.via = "make_request"
        /\ slots[i].resp.kind = "http"
        /\ slots[i].resp.body.fmt = "json_obj"
        /\ (~IsSuccess(slots[i].resp.status) \/ IsFailEnvelope(slots[i].resp))) =>
          /\ Text(i)[1] = Lit("Error: ")
          /\ Contains(Text(i), JsonDumps(ErrorsOf(slots[i].resp)))

\* C8 as stated: whatever tool was called, a 2xx response whose envelope has
\* success false comes back as an "Error: " text that holds the serialized
\* errors list, never as a success.
C8_FailEnvelopeIsErrorForEveryTool ==
    \A i \in Slots :
       (/\ slots[i].st = "done"
        /\ Ok2xx(slots[i].resp)
        /\ IsFailEnvelope(slots[i].resp)) =>
          /\ Text(i)[1] = Lit("Error: ")
          /\ Contains(Text(i), JsonDumps(ErrorsOf(slots[i].resp)))

\* C8 amended: for a tool that goes through _make_request (all but
\* read_kv_value, write_kv_value and delete_kv_value), a 2xx response whose
\* envelope has success false comes back as the text
\* "Error: Cloudflare API error: <json.dumps(errors)>", errors being [] when
\* the envelope has none; with errors [{code: 1000, message: "bad"}] the text
\* holds the serialization of that list, and the result is not returned.
C8_FailEnvelopeIsErrorText ==
    \A i \in Slots :
       (/\ slots[i].st = "done"
        /\ slots[i].req.via = "make_request"
        /\ Ok2xx(slots[i].resp)
        /\ IsFailEnvelope(slots[i].resp)) =>
          /\ ~slots[i].crashed
          /\ Text(i) = <<Lit("Error: "), Lit("Cloudflare API error: "),
                         JsonDumps(ErrorsOf(slots[i].resp))>>
          /\ ~Contains(Text(i), JsonDumps(Get(Envelope(slots[i].resp), "result")))
          /\ ErrorsOf(slots[i].resp) = ErrsBad =>
                Text(i)[3][2][2][1].message = "bad"

\* C8 witness: get_zone was answered 200 with success false and the "bad"
\* error, and the text holds that error list.
C8_Witness ==
    \E i \in Slots :
       /\ slots[i].st = "done"
       /\ slots[i].handler = "get_zone"
       /\ slots[i].resp = HttpResponse(200, JsonObj(FailEnvelope))
       /\ Text(i)[1] = Lit("Error: ")
       /\ Text(i)[3] = JsonDumps(ErrsBad)

\* C9: a read_kv_value that succeeds after a successful write_kv_value of v
\* to the same (account, namespace, key), with no later write or delete of
\* that key, returns v, and the tool-call text is its JSON stringification.
C9_WriteThenReadReturnsValue ==
    \A i \in Slots :
       (/\ slots[i].st = "done"
        /\ slots[i].handler = "read_kv_value"
        /\ Ok2xx(slots[i].resp)) =>
          /\ slots[i].expect # Absent
          /\ Outcome(i) = Return(slots[i].expect)
          /\ Text(i) = <<JsonDumps(slots[i].expect)>>

\* C9 witness: "v2" was written under the default account and read back.
C9_Witness ==
    \E i \in Slots :
       /\ slots[i].st = "done"
       /\ slots[i].handler = "read_kv_value"
       /\ "account_id" \notin DOMAIN slots[i].args
       /\ Ok2xx(slots[i].resp)
       /\ slots[i].expect = PyStr("v2")
       /\ Text(i) = <<JsonDumps(PyStr("v2"))>>

\* C10: once main() has left the try block, by return or by exception, the
\* client is closed exactly once: it is never closed twice, it is closed when
\* the process exits, and no invocation is suspended on or sent through a
\* closed client.
C10_ClientReleasedOnce ==
    /\ closes <= 1
    /\ closes = 1 <=> client = "closed"
    /\ pc \in {"exited", "exited_raising"} => closes = 1
    /\ pc \in {"constructed", "running", "returned", "raised"} => client = "open"
    /\ client # "open" => \A i \in Slots : slots[i].st = "idle"

\* C10 witness: the server loop raised and the process left with the client
\* closed once.
C10_Witness ==
    /\ pc = "exited_raising"
    /\ closes = 1
    /\ client = "closed"

\* C11: a key of the outbound query or body is a key of the arguments, the
\* one exception being ttl = 1 in create_dns_record; the body of
\* update_dns_record holds type, name, content and exactly those of ttl,
\* proxied, priority, comment that the arguments hold, with their values.
C11_OptionalOnlyIfSupplied ==
    \A i \in DOMAIN slots :
       Sent(i) =>
          /\ \A k \in DOMAIN slots[i].req.params : k \in DOMAIN slots[i].args
          /\ \A k \in DOMAIN slots[i].req.body.data :
                \/ k \in DOMAIN slots[i].args
                \/ /\ slots[i].handler = "create_dns_record"
                   /\ k = "ttl"
                   /\ slots[i].req.body.data[k] = PyInt("1")
          /\ slots[i].handler = "update_dns_record" =>
                /\ slots[i].req.body.kind = "json"
                /\ DOMAIN slots[i].req.body.data =
                      {"type", "name", "content"} \cup
                      (DOMAIN slots[i].args \cap
                          {"ttl", "proxied", "priority", "comment"})
                /\ \A k \in DOMAIN slots[i].req.body.data :
                      slots[i].req.body.data[k] = slots[i].args[k]

\* C11 witness: update_dns_record without ttl has its request out, and the
\* body has no ttl.
C11_Witness ==
    \E i \in DOMAIN slots :
       /\ slots[i].st = "awaiting"
       /\ slots[i].handler = "update_dns_record"
       /\ "ttl" \notin DOMAIN slots[i].args
       /\ DOMAIN slots[i].req.body.data = {"type", "name", "content"}

\* Names a caller may ask for: the listed ones and the ones the inputs use.
KnownNames == Registered \cup {Inputs[n].name : n \in 1..Len(Inputs)}

\* The names call_tool routes to a handler.
Routed == {n \in KnownNames : call_tool_route(n) # "unknown"}

\* C12: every list_tools() answer is the same ordered sequence of 13
\* descriptors with pairwise distinct names, whatever tool calls happened in
\* between; the listed names are exactly the names call_tool routes to a
\* handler, so a listed name is never answered "unknown tool" and an unlisted
\* name never reaches a handler.
C12_ToolListFixedAndRouted ==
    /\ listed # <<>> =>
          /\ listed = ToolNames
          /\ Len(listed) = 13
          /\ \A a, b \in 1..Len(listed) : listed[a] = listed[b] => a = b
          /\ {listed[a] : a \in 1..Len(listed)} = Routed
    /\ \A i \in DOMAIN slots :
          Active(i) =>
             /\ slots[i].name \in Registered <=> slots[i].handler # "unknown"
             /\ slots[i].handler # "unknown" => slots[i].handler = slots[i].name

\* C12 witness: the list was asked for and a listed tool, get_zone, has been
\* answered by its handler.
C12_Witness ==
    /\ listed = ToolNames
    /\ \E i \in DOMAIN slots :
          /\ slots[i].st = "done"
          /\ slots[i].name = "get_zone"
          /\ slots[i].handler = "get_zone"
          /\ slots[i].sent = 1

\* The arguments each tool reads with args[...], as its schema requires them.
RequiredArgs(name) ==
    CASE name \in {"get_zone", "list_dns_records", "purge_cache",
                   "get_zone_analytics"} -> {"zone_id"}
      [] name = "create_dns_record" -> {"zone_id", "type", "name", "content"}
      [] name = "update_dns_record" ->
            {"zone_id", "record_id", "type", "name", "content"}
      [] name = "delete_dns_record" -> {"zone_id", "record_id"}
      [] name \in {"read_kv_value", "delete_kv_value"} -> {"namespace_id", "key"}
      [] name = "write_kv_value" -> {"namespace_id", "key", "value"}
      [] name = "list_kv_keys" -> {"namespace_id"}
      [] OTHER -> {}

\* An invocation that cannot reach the network: unknown tool, a required
\* argument missing, or no account id to resolve.
FailsBeforeNetwork(i) ==
    \/ slots[i].name \notin Registered
    \/ ~(RequiredArgs(slots[i].name) \subseteq DOMAIN slots[i].args)
    \/ /\ slots[i].name \in AccountScoped
       /\ ~Truthy(account_id_of(slots[i].args, account_id))

\* C13: an invocation sends at most one request, whatever the answer, and
\* sends none when the tool is unknown, a required argument is missing or the
\* account id cannot be resolved.
C13_AtMostOneRequest ==
    \A i \in DOMAIN slots :
       /\ slots[i].sent <= 1
       /\ slots[i].st = "awaiting" => slots[i].sent = 1
       /\ (Active(i) /\ FailsBeforeNetwork(i)) =>
             /\ slots[i].st = "done"
             /\ slots[i].sent = 0
             /\ slots[i].req = NoReq
             /\ Text(i)[1] = Lit("Error: ")

\* C13 witness: a request failed on the network and the invocation ended
\* with that one request.
C13_Witness ==
    \E i \in DOMAIN slots :
       /\ slots[i].st = "done"
       /\ slots[i].handler = "get_zone"
       /\ slots[i].resp.kind = "neterr"
       /\ slots[i].sent = 1

\* What invocation i sent and returned is what its own name, arguments, the
\* configuration and the answer to its own request give.
OwnInputsDecide(i) ==
    LET plan == handler_plan(slots[i].name, slots[i].args, account_id)
    IN  /\ Sent(i) => plan.tag = "send" /\ slots[i].req = plan.req
        /\ (Active(i) /\ ~Sent(i)) =>
              /\ plan.tag = "raise"
              /\ slots[i].content = call_tool_result(Throw(plan.exc)).content
        /\ (slots[i].st = "done" /\ Sent(i)) =>
              slots[i].content =
                 call_tool_result(handler_resume(plan.req, slots[i].resp)).content

\* Two invocations with the same name and arguments sent the same request,
\* and returned the same text if they got the same answer.
SameInputsSameOutputs(i, j) ==
    (/\ Active(i) /\ Active(j)
     /\ slots[i].name = slots[j].name
     /\ slots[i].args = slots[j].args) =>
       /\ slots[i].sent = slots[j].sent
       /\ slots[i].req = slots[j].req
       /\ (/\ slots[i].st = "done" /\ slots[j].st = "done"
           /\ slots[i].resp = slots[j].resp) =>
             slots[i].content = slots[j].content

\* No step changes the token, the default account id or the tool list.
ConfigUntouched ==
    /\ api_token' = api_token
    /\ account_id' = account_id
    /\ listed # <<>> => listed' = listed

\* C14: with several invocations in flight, the request and the text of each
\* are decided by its own name and arguments, the startup configuration and
\* the answer to its own request, however the others interleave; and no
\* invocation changes the token, the default account id or the registry.
C14_InvocationsIndependent ==
    /\ [](\A i \in DOMAIN slots :
             /\ OwnInputsDecide(i)
             /\ \A j \in DOMAIN slots : SameInputsSameOutputs(i, j))
    /\ [][ConfigUntouched]_vars

\* C14 witness: a read was answered while a write of the same key by another
\* invocation was suspended at its request.
C14_Witness ==
    \E i, j \in DOMAIN slots :
       /\ i # j
       /\ slots[i].st = "awaiting"
       /\ slots[i].handler = "write_kv_value"
       /\ slots[j].st = "done"
       /\ slots[j].handler = "read_kv_value"
       /\ Ok2xx(slots[j].resp)
       /\ slots[i].req.path = slots[j].req.path

\* The optional query fields each handler copies with `if args.get(k)`.
QueryOptional(h) ==
    CASE h = "list_zones" -> {"name", "status", "page", "per_page"}
      [] h = "list_dns_records" -> {"type", "name", "content", "page", "per_page"}
      [] h = "list_kv_namespaces" -> {"page", "per_page"}
      [] h = "list_kv_keys" -> {"prefix", "limit", "cursor"}
      [] h = "get_zone_analytics" -> {"since", "until"}
      [] h = "write_kv_value" -> {"expiration_ttl", "metadata"}
      [] OTHER -> {}

PurgeSelectors == {"files", "tags", "hosts"}
DnsOptional == {"proxied", "priority", "comment"}
DnsHandlers == {"create_dns_record", "update_dns_record"}

\* create_dns_record and update_dns_record forward every supplied proxied,
\* priority and comment, whatever its value.
DnsOptionalForwarded(i) ==
    slots[i].handler \in DnsHandlers =>
       \A k \in DnsOptional \cap DOMAIN slots[i].args :
          /\ k \in DOMAIN slots[i].req.body.data
          /\ slots[i].req.body.data[k] = slots[i].args[k]

\* C15 as stated: every optional field the caller supplied is in the
\* outbound request with the supplied value.
C15_SuppliedAlwaysSent ==
    \A i \in DOMAIN slots :
       Sent(i) =>
          /\ \A k \in QueryOptional(slots[i].handler) \cap DOMAIN slots[i].args :
                /\ k \in DOMAIN slots[i].req.params
                /\ slots[i].req.params[k] = slots[i].args[k]
          /\ slots[i].handler = "purge_cache" =>
                \A k \in PurgeSelectors \cap DOMAIN slots[i].args :
                   /\ k \in DOMAIN slots[i].req.body.data
                   /\ slots[i].req.body.data[k] = slots[i].args[k]
          /\ DnsOptionalForwarded(i)

\* C15 amended: in the query-building handlers an optional field supplied
\* with a truthy value is sent with that value (metadata as its JSON
\* serialization), and one supplied with a falsy value (0, "", false, empty
\* list, null) is left out like an absent one; purge_cache sends a truthy
\* selector only when purge_everything is not truthy; create_dns_record and
\* update_dns_record forward every supplied proxied, priority and comment,
\* false, 0 and "" included.
C15_TruthySuppliedSent ==
    \A i \in DOMAIN slots :
       Sent(i) =>
          /\ \A k \in QueryOptional(slots[i].handler) :
                IF Truthy(Get(slots[i].args, k))
                THEN /\ k \in DOMAIN slots[i].req.params
                     /\ slots[i].req.params[k] =
                           IF k = "metadata"
                           THEN PyStr(JsonDumps(slots[i].args[k]))
                           ELSE slots[i].args[k]
                ELSE k \notin DOMAIN slots[i].req.params
          /\ slots[i].handler = "purge_cache" =>
                \A k \in PurgeSelectors :
                   IF /\ Truthy(Get(slots[i].args, k))
                      /\ ~Truthy(Get(slots[i].args, "purge_everything"))
                   THEN /\ k \in DOMAIN slots[i].req.body.data
                        /\ slots[i].req.body.data[k] = slots[i].args[k]
                   ELSE k \notin DOMAIN slots[i].req.body.data
          /\ DnsOptionalForwarded(i)

\* C15 witness: list_zones was called with name "e.x" and page 0; the name is
\* in the query and the page is not.
C15_Witness ==
    \E i \in DOMAIN slots :
       /\ Sent(i)
       /\ slots[i].handler = "list_zones"
       /\ Get(slots[i].args, "page") = PyInt("0")
       /\ DOMAIN slots[i].req.params = {"name"}
       /\ slots[i].req.params["name"] = slots[i].args["name"]

====
